---- MODULE Spec2Model ----
(***************************************************************************)
(* Model of movement/validators/datasets.py: the attrs classes             *)
(* ValidPosesDataset and ValidBboxesDataset.                               *)
(*                                                                         *)
(* A construction is the attrs-generated __init__: every attribute is      *)
(* assigned in definition order (through its converter when it has one),   *)
(* then every validator runs in definition order, then                     *)
(* __attrs_post_init__ runs.  The classes are declared with @define, so    *)
(* assignments made inside __attrs_post_init__ go through the converter    *)
(* and the validator of the attribute again (on_setattr).                  *)
(*                                                                         *)
(* The keyword arguments of a call are fixed when the call is made; the    *)
(* model reveals each argument at the step where the code first inspects   *)
(* it (args[a] = Unread before that): an assignment without a converter    *)
(* only copies the value, so nothing depends on it before its first read.  *)
(***************************************************************************)
EXTENDS Integers, Sequences, FiniteSets, TLC

VARIABLES
    cls,      \* class under construction: "none", "ValidPosesDataset", "ValidBboxesDataset"
    pc,       \* <<phase, attribute>>: the step of __init__ about to run
    args,     \* keyword arguments of the call, as far as the code has read them
    self,     \* attributes of the instance under construction
    log,      \* what went through log_warning, in order
    raised,   \* the exception that ended the construction, or NoError
    trace,    \* the steps of __init__ that have run in this construction, in order
    pass,     \* 1: a construction from caller-supplied values; 2: from a finished record
    first     \* the attributes of the record produced by pass 1 (Unset fields before)

vars == <<cls, pc, args, self, log, raised, trace, pass, first>>

--------------------------------------------------------------------------
(* Bounds of the model *)

MaxDim == 2        \* every non-spatial axis has length 1..MaxDim
MaxNames == 2      \* name lists have 0..MaxNames items

(* Constants of the program *)

PoseRank == 4      \* n_frames, n_individuals, n_keypoints, n_space
BboxRank == 3      \* n_frames, n_individual_names, n_space
BboxSpace == 2
PoseSpaces == {2, 3}
LightningPose == "LightningPose"

--------------------------------------------------------------------------
(* Python values *)

None == [t |-> "None"]
Unread == [t |-> "unread"]
Unset == [t |-> "unset"]
Str(s) == [t |-> "str", s |-> s]
PyInt(n) == [t |-> "int", n |-> n]
Float(x) == [t |-> "float", x |-> x]
List(items) == [t |-> "list", items |-> items]
Ndarray(shape, fill) == [t |-> "ndarray", shape |-> shape, fill |-> fill]

NoError == [type |-> "none"]
Error(type, step, why) == [type |-> type, step |-> step, why |-> why]

Ok(v, w) == [ok |-> TRUE, value |-> v, warn |-> w]
Fail(type, why) == [ok |-> FALSE, type |-> type, why |-> why]

--------------------------------------------------------------------------
(* Argument values a caller may pass *)

\* one rank below the lowest the validators accept, up to the highest
Ranks == (BboxRank - 1) .. PoseRank
SpaceSizes == 1 .. 3

ShapesOfRank(r) ==
    { lead \o <<sp>> : lead \in [1 .. (r - 1) -> 1 .. MaxDim], sp \in SpaceSizes }

Shapes == UNION { ShapesOfRank(r) : r \in Ranks }

ArrayInputs ==
    {None, List(<<PyInt(1)>>)} \cup { Ndarray(s, "data") : s \in Shapes }

\* items of a name list as callers pass them (ids read from a file): str(7) = "7"
NameItems == {PyInt(7)}

NameInputs ==
    {None, Str("x"), PyInt(5)}
    \cup { List(items) : items \in UNION { [1 .. n -> NameItems] : n \in 0 .. MaxNames } }

FpsInputs == {None, PyInt(30), PyInt(0), PyInt(-5), Str("25"), Str("abc")}

SourceInputs == {None, Str(LightningPose), Str("DeepLabCut"), PyInt(5)}

--------------------------------------------------------------------------
(* Helpers *)

\* str(item), for the items of the model (str and int)
PyStr(item) ==
    CASE item.t = "str" -> item
      [] item.t = "int" -> Str(ToString(item.n))
      [] OTHER -> Str("?")

\* Faulty variant: repr(item) in place of str(item)
ListOfStrRepr(value) ==
    IF value.t = "str"
    THEN Ok(List(<<value>>), <<"str_to_list">>)
    ELSE IF value.t = "list"
    THEN Ok(List([i \in 1 .. Len(value.items) |->
                    IF value.items[i].t = "str"
                    THEN Str("'" \o value.items[i].s \o "'")
                    ELSE PyStr(value.items[i])]), <<>>)
    ELSE Fail("ValueError", "not_list_of_str")

\* Faulty variant: a bare string is rejected like any other non-list
ListOfStrRejectsStr(value) ==
    IF value.t = "list"
    THEN Ok(List([i \in 1 .. Len(value.items) |-> PyStr(value.items[i])]), <<>>)
    ELSE Fail("ValueError", "not_list_of_str")

\* _list_of_str.  Of the values of the model only a list is an Iterable that
\* is not a str.
ListOfStr(value) ==
    IF value.t = "str"
    THEN Ok(List(<<value>>), <<"str_to_list">>)
    ELSE IF value.t = "list"
    THEN Ok(List([i \in 1 .. Len(value.items) |-> PyStr(value.items[i])]), <<>>)
    ELSE Fail("ValueError", "not_list_of_str")

\* converters.optional(_list_of_str)
OptionalListOfStr(value) ==
    IF value = None THEN Ok(None, <<>>) ELSE ListOfStr(value)

\* float(s) for the string arguments of the model
ParseFloat(s) ==
    CASE s = "25" -> Ok(Float(25), <<>>)
      [] OTHER -> Fail("ValueError", "not_a_float")

\* converters.optional(float)
OptionalFloat(value) ==
    CASE value = None -> Ok(None, <<>>)
      [] value.t = "float" -> Ok(value, <<>>)
      [] value.t = "int" -> Ok(Float(value.n), <<>>)
      [] value.t = "str" -> ParseFloat(value.s)
      [] OTHER -> Fail("TypeError", "not_a_float")

\* _set_fps_to_none_if_invalid
SetFpsToNoneIfInvalid(fpsv) ==
    IF fpsv # None /\ fpsv.x <= 0
    THEN Ok(None, <<"fps_invalid">>)
    ELSE Ok(fpsv, <<>>)

\* converters.pipe(converters.optional(float), _set_fps_to_none_if_invalid)
FpsConverter(value) ==
    LET f == OptionalFloat(value)
    IN  IF f.ok THEN SetFpsToNoneIfInvalid(f.value) ELSE f

\* _ensure_type_ndarray
EnsureTypeNdarray(value) == value.t = "ndarray"

\* _validate_list_length: "ok" or the reason of the ValueError
ValidateListLength(value, expected_length) ==
    IF value # None /\ Len(value.items) # expected_length
    THEN "list_length"
    ELSE "ok"

\* shape[:-1]
Leading(shape) == SubSeq(shape, 1, Len(shape) - 1)

\* np.full(shape, np.nan, dtype="float32")
NpFullNan(shape) == Ndarray(shape, "nan")

\* [f"{prefix}_{i}" for i in range(n)]
\* Faulty variant: numbering from 1 (range(1, n + 1))
DefaultNamesFromOne(prefix, n) ==
    List([i \in 1 .. n |-> Str(prefix \o "_" \o ToString(i))])

DefaultNames(prefix, n) ==
    List([i \in 1 .. n |-> Str(prefix \o "_" \o ToString(i - 1))])

--------------------------------------------------------------------------
(* The attributes of the two classes, in definition order *)

Poses == "ValidPosesDataset"
Bboxes == "ValidBboxesDataset"
Classes == {Poses, Bboxes}

AllAttrs ==
    {"position_array", "shape_array", "confidence_array", "individual_names",
     "keypoint_names", "fps", "source_software"}

PosesAttrs ==
    <<"position_array", "confidence_array", "individual_names",
      "keypoint_names", "fps", "source_software">>
PosesConverted == {"individual_names", "keypoint_names", "fps"}
PosesValidated ==
    {"position_array", "confidence_array", "individual_names",
     "keypoint_names", "source_software"}
PosesRequired == {"position_array"}

\* Faulty variant: individual_names declared after confidence_array, as in ValidPosesDataset
BboxesAttrsPosesOrder ==
    <<"position_array", "shape_array", "confidence_array", "individual_names",
      "fps", "source_software">>

BboxesAttrs ==
    <<"position_array", "shape_array", "individual_names", "confidence_array",
      "fps", "source_software">>
BboxesConverted == {"individual_names", "fps"}
BboxesValidated ==
    {"position_array", "shape_array", "individual_names", "confidence_array",
     "source_software"}
BboxesRequired == {"position_array", "shape_array", "individual_names"}

Idle == <<"idle", "">>
Done == <<"done", "">>
Raised == <<"raised", "">>
PostInit == <<"post_init", "">>

\* The generated __init__: converters in attribute order, validators in
\* attribute order, __attrs_post_init__, return.
InitSteps(attrs, converted, validated) ==
    LET c == SelectSeq(attrs, LAMBDA a : a \in converted)
        v == SelectSeq(attrs, LAMBDA a : a \in validated)
    IN  [i \in 1 .. Len(c) |-> <<"convert", c[i]>>]
        \o [i \in 1 .. Len(v) |-> <<"validate", v[i]>>]
        \o <<PostInit, Done>>

Steps(c) ==
    IF c = Poses
    THEN InitSteps(PosesAttrs, PosesConverted, PosesValidated)
    ELSE InitSteps(BboxesAttrs, BboxesConverted, BboxesValidated)

Required(c) == IF c = Poses THEN PosesRequired ELSE BboxesRequired

StepAfter(c, step) ==
    LET seq == Steps(c)
        i == CHOOSE k \in 1 .. Len(seq) : seq[k] = step
    IN  seq[i + 1]

Omitted == [t |-> "omitted"]

\* The values argument a may have: any a caller may pass, or, when a finished
\* record is validated again, the value the record holds.
ArgValues(a) ==
    IF pass = 2 THEN {first[a]}
    ELSE CASE a \in {"position_array", "shape_array", "confidence_array"} -> ArrayInputs
           [] a \in {"individual_names", "keypoint_names"} -> NameInputs
           [] a = "fps" -> FpsInputs
           [] a = "source_software" -> SourceInputs

\* An argument the code may have read at an earlier step
ReadValues(a) == IF args[a] = Unread THEN ArgValues(a) ELSE {args[a]}

--------------------------------------------------------------------------
(* Validators: "ok", or the reason of the exception raised *)

\* Faulty variant: the rank is not checked
PosesCheckPositionArrayNoRank(value) ==
    IF ~EnsureTypeNdarray(value) THEN "not_ndarray"
    ELSE IF value.shape[Len(value.shape)] \notin PoseSpaces THEN "n_space"
    ELSE "ok"

\* ValidPosesDataset._validate_position_array
PosesCheckPositionArray(value) ==
    IF ~EnsureTypeNdarray(value) THEN "not_ndarray"
    ELSE IF Len(value.shape) # PoseRank THEN "ndim"
    ELSE IF value.shape[Len(value.shape)] \notin PoseSpaces THEN "n_space"
    ELSE "ok"

\* ValidPosesDataset._validate_confidence_array
PosesCheckConfidenceArray(value, position_array) ==
    IF value = None THEN "ok"
    ELSE IF ~EnsureTypeNdarray(value) THEN "not_ndarray"
    ELSE IF value.shape # Leading(position_array.shape) THEN "shape"
    ELSE "ok"

\* ValidPosesDataset._validate_individual_names
PosesCheckIndividualNames(value, source_software, position_array) ==
    IF source_software = Str(LightningPose)
    THEN ValidateListLength(value, 1)
    ELSE ValidateListLength(value, position_array.shape[2])

\* ValidPosesDataset._validate_keypoint_names
PosesCheckKeypointNames(value, position_array) ==
    ValidateListLength(value, position_array.shape[3])

\* validators.optional(validators.instance_of(str))
CheckSourceSoftware(value) ==
    IF value = None \/ value.t = "str" THEN "ok" ELSE "not_str"

\* ValidBboxesDataset._validate_centroid_position_and_shape_arrays
BboxesCheckPositionAndShapeArrays(value) ==
    IF ~EnsureTypeNdarray(value) THEN "not_ndarray"
    ELSE IF Len(value.shape) # BboxRank THEN "ndim"
    ELSE IF value.shape[Len(value.shape)] # BboxSpace THEN "n_space"
    ELSE "ok"

\* ValidBboxesDataset._validate_individual_names
BboxesCheckIndividualNames(value, position_array) ==
    ValidateListLength(value, position_array.shape[2])

\* Faulty variant: only the number of dimensions of the confidence array is compared
BboxesCheckConfidenceArrayNdim(value, position_array) ==
    IF value = None THEN "ok"
    ELSE IF ~EnsureTypeNdarray(value) THEN "not_ndarray"
    ELSE IF Len(value.shape) # Len(Leading(position_array.shape)) THEN "shape"
    ELSE "ok"

\* ValidBboxesDataset._validate_confidence_array
BboxesCheckConfidenceArray(value, position_array) ==
    IF value = None THEN "ok"
    ELSE IF ~EnsureTypeNdarray(value) THEN "not_ndarray"
    ELSE IF value.shape # Leading(position_array.shape) THEN "shape"
    ELSE "ok"

--------------------------------------------------------------------------
(* __attrs_post_init__.  acc = [why, self, warn]: the reason of the exception  *)
(* raised so far ("ok": none), the attributes, the warnings logged.  Every     *)
(* assignment runs the attribute's converter and validator (on_setattr)        *)
(* before the warning that follows it is logged.                               *)

Setattr(acc, a, value, check, warning) ==
    IF check = "ok"
    THEN [why |-> "ok", self |-> [acc.self EXCEPT ![a] = value],
          warn |-> Append(acc.warn, warning)]
    ELSE [acc EXCEPT !.why = check]

PosesDefaultConfidence(acc) ==
    IF acc.why # "ok" \/ acc.self.confidence_array # None THEN acc
    ELSE LET v == NpFullNan(Leading(acc.self.position_array.shape))
         IN  Setattr(acc, "confidence_array", v,
                     PosesCheckConfidenceArray(v, acc.self.position_array),
                     "confidence_default")

PosesDefaultIndividualNames(acc) ==
    IF acc.why # "ok" \/ acc.self.individual_names # None THEN acc
    ELSE LET c == OptionalListOfStr(
                      DefaultNames("individual", acc.self.position_array.shape[2]))
         IN  IF ~c.ok THEN [acc EXCEPT !.why = c.why]
             ELSE Setattr(acc, "individual_names", c.value,
                          PosesCheckIndividualNames(c.value, acc.self.source_software,
                                                    acc.self.position_array),
                          "individual_names_default")

PosesDefaultKeypointNames(acc) ==
    IF acc.why # "ok" \/ acc.self.keypoint_names # None THEN acc
    ELSE LET c == OptionalListOfStr(
                      DefaultNames("keypoint", acc.self.position_array.shape[3]))
         IN  IF ~c.ok THEN [acc EXCEPT !.why = c.why]
             ELSE Setattr(acc, "keypoint_names", c.value,
                          PosesCheckKeypointNames(c.value, acc.self.position_array),
                          "keypoint_names_default")

\* ValidPosesDataset.__attrs_post_init__
PosesAttrsPostInit(s) ==
    PosesDefaultKeypointNames(
        PosesDefaultIndividualNames(
            PosesDefaultConfidence([why |-> "ok", self |-> s, warn |-> <<>>])))

\* ValidBboxesDataset.__attrs_post_init__
BboxesAttrsPostInit(s) ==
    LET acc == [why |-> "ok", self |-> s, warn |-> <<>>]
    IN  IF s.confidence_array # None THEN acc
        ELSE LET v == NpFullNan(Leading(s.position_array.shape))
             IN  Setattr(acc, "confidence_array", v,
                         BboxesCheckConfidenceArray(v, s.position_array),
                         "confidence_default")

--------------------------------------------------------------------------
(* Initial state: no construction under way *)

Init ==
    /\ cls = "none"
    /\ pc = Idle
    /\ args = [a \in AllAttrs |-> Unread]
    /\ self = [a \in AllAttrs |-> Unset]
    /\ log = <<>>
    /\ raised = NoError
    /\ trace = <<>>
    /\ pass = 1
    /\ first = [a \in AllAttrs |-> Unset]

--------------------------------------------------------------------------
(* Steps of the generated __init__ *)

\* The call: a required keyword argument left out is a TypeError before any
\* attribute is assigned.  A finished record supplies every argument.
Call(c) ==
    /\ pc = Idle
    /\ pass = 1 \/ c = cls
    /\ \E supplied \in (IF pass = 1 THEN SUBSET Required(c) ELSE {Required(c)}) :
          /\ args' = [a \in AllAttrs |->
                        IF a \in Required(c) \ supplied THEN Omitted ELSE Unread]
          /\ IF supplied = Required(c)
             THEN pc' = Steps(c)[1] /\ raised' = NoError
             ELSE pc' = Raised /\ raised' = Error("TypeError", Idle, "missing_argument")
    /\ cls' = c
    /\ UNCHANGED <<self, log, trace, pass, first>>

\* self.a = converter(a), for the argument v and the converter's result r
Converted(a, v, r) ==
    /\ pc = <<"convert", a>>
    /\ args' = [args EXCEPT ![a] = v]
    /\ trace' = Append(trace, pc)
    /\ IF r.ok
       THEN /\ self' = [self EXCEPT ![a] = r.value]
            /\ log' = log \o r.warn
            /\ pc' = StepAfter(cls, pc)
            /\ raised' = raised
       ELSE /\ pc' = Raised
            /\ raised' = Error(r.type, pc, r.why)
            /\ UNCHANGED <<self, log>>
    /\ UNCHANGED <<cls, pass, first>>

ConvertIndividualNames ==
    \E v \in ArgValues("individual_names") :
        Converted("individual_names", v, OptionalListOfStr(v))

ConvertKeypointNames ==
    \E v \in ArgValues("keypoint_names") :
        Converted("keypoint_names", v, OptionalListOfStr(v))

ConvertFps ==
    \E v \in ArgValues("fps") : Converted("fps", v, FpsConverter(v))

\* The end of a validator: it returns, or its exception ends the construction
Validated(check, type, newargs, newself) ==
    /\ args' = newargs
    /\ self' = newself
    /\ trace' = Append(trace, pc)
    /\ IF check = "ok"
       THEN pc' = StepAfter(cls, pc) /\ raised' = raised
       ELSE pc' = Raised /\ raised' = Error(type, pc, check)
    /\ UNCHANGED <<cls, log, pass, first>>

PosesValidatePositionArray ==
    /\ cls = Poses
    /\ pc = <<"validate", "position_array">>
    /\ \E v \in ReadValues("position_array") :
          Validated(PosesCheckPositionArray(v), "ValueError",
                    [args EXCEPT !.position_array = v],
                    [self EXCEPT !.position_array = v])

PosesValidateConfidenceArray ==
    /\ cls = Poses
    /\ pc = <<"validate", "confidence_array">>
    /\ \E v \in ReadValues("confidence_array") :
          Validated(PosesCheckConfidenceArray(v, self.position_array), "ValueError",
                    [args EXCEPT !.confidence_array = v],
                    [self EXCEPT !.confidence_array = v])

\* reads self.source_software before the validator of source_software has run
PosesValidateIndividualNames ==
    /\ cls = Poses
    /\ pc = <<"validate", "individual_names">>
    /\ \E s \in ReadValues("source_software") :
          Validated(PosesCheckIndividualNames(self.individual_names, s,
                                              self.position_array),
                    "ValueError",
                    [args EXCEPT !.source_software = s],
                    [self EXCEPT !.source_software = s])

PosesValidateKeypointNames ==
    /\ cls = Poses
    /\ pc = <<"validate", "keypoint_names">>
    /\ Validated(PosesCheckKeypointNames(self.keypoint_names, self.position_array),
                 "ValueError", args, self)

ValidateSourceSoftware ==
    /\ pc = <<"validate", "source_software">>
    /\ \E s \in ReadValues("source_software") :
          Validated(CheckSourceSoftware(s), "TypeError",
                    [args EXCEPT !.source_software = s],
                    [self EXCEPT !.source_software = s])

\* one validator function, registered for position_array and for shape_array
BboxesValidatePositionAndShapeArrays(a) ==
    /\ cls = Bboxes
    /\ pc = <<"validate", a>>
    /\ \E v \in ReadValues(a) :
          Validated(BboxesCheckPositionAndShapeArrays(v), "ValueError",
                    [args EXCEPT ![a] = v], [self EXCEPT ![a] = v])

BboxesValidateIndividualNames ==
    /\ cls = Bboxes
    /\ pc = <<"validate", "individual_names">>
    /\ Validated(BboxesCheckIndividualNames(self.individual_names, self.position_array),
                 "ValueError", args, self)

BboxesValidateConfidenceArray ==
    /\ cls = Bboxes
    /\ pc = <<"validate", "confidence_array">>
    /\ \E v \in ReadValues("confidence_array") :
          Validated(BboxesCheckConfidenceArray(v, self.position_array), "ValueError",
                    [args EXCEPT !.confidence_array = v],
                    [self EXCEPT !.confidence_array = v])

\* __attrs_post_init__ of either class, then the return of __init__
AttrsPostInit ==
    /\ pc = PostInit
    /\ LET r == IF cls = Poses THEN PosesAttrsPostInit(self)
                ELSE BboxesAttrsPostInit(self)
       IN  /\ self' = r.self
           /\ log' = log \o r.warn
           /\ trace' = Append(trace, pc)
           /\ IF r.why = "ok"
              THEN pc' = StepAfter(cls, pc) /\ raised' = raised
              ELSE pc' = Raised /\ raised' = Error("ValueError", pc, r.why)
    /\ UNCHANGED <<cls, args, pass, first>>

\* A caller builds the class again from the attributes of a finished record
Revalidate ==
    /\ pc = Done
    /\ pass = 1
    /\ pass' = 2
    /\ first' = self
    /\ pc' = Idle
    /\ args' = [a \in AllAttrs |-> Unread]
    /\ self' = [a \in AllAttrs |-> Unset]
    /\ log' = <<>>
    /\ trace' = <<>>
    /\ UNCHANGED <<cls, raised>>

Next ==
    \/ \E c \in Classes : Call(c)
    \/ ConvertIndividualNames
    \/ ConvertKeypointNames
    \/ ConvertFps
    \/ PosesValidatePositionArray
    \/ PosesValidateConfidenceArray
    \/ PosesValidateIndividualNames
    \/ PosesValidateKeypointNames
    \/ ValidateSourceSoftware
    \/ \E a \in {"position_array", "shape_array"} : BboxesValidatePositionAndShapeArrays(a)
    \/ BboxesValidateIndividualNames
    \/ BboxesValidateConfidenceArray
    \/ AttrsPostInit
    \/ Revalidate

Spec == Init /\ [][Next]_vars

--------------------------------------------------------------------------
(* Vocabulary of the properties, spelled out from the specification *)

Terminal == pc \in {Done, Raised}

Supplied(a) == args[a] \notin {None, Unread, Omitted}

ButLast(shape) == [i \in 1 .. (Len(shape) - 1) |-> shape[i]]

IsPosePosition(v) ==
    /\ v.t = "ndarray"
    /\ Len(v.shape) = 4
    /\ v.shape[4] \in {2, 3}

IsBboxArray(v) ==
    /\ v.t = "ndarray"
    /\ Len(v.shape) = 3
    /\ v.shape[3] = 2

GeneratedNames(prefix, n) ==
    List([i \in 1 .. n |-> Str(prefix \o ToString(i - 1))])

DefaultWarnings ==
    {"confidence_default", "individual_names_default", "keypoint_names_default"}

Logged(w) == \E i \in 1 .. Len(log) : log[i] = w

OnlyPositionAnd(others) ==
    /\ cls = Poses
    /\ pass = 1
    /\ IsPosePosition(args.position_array)
    /\ \A a \in {"confidence_array", "individual_names", "keypoint_names", "fps",
                 "source_software"} \ others : ~Supplied(a)

--------------------------------------------------------------------------
(* C1: a ValidPosesDataset built from a valid position array alone is always   *)
(* built, with a confidence array of the position's leading shape full of      *)
(* NaN, individual_names = individual_0 .. individual_{n-1} for                *)
(* n = shape[1], keypoint_names = keypoint_0 .. keypoint_{k-1} for              *)
(* k = shape[2].                                                               *)
C1_OnlyPositionDefaults ==
    (Terminal /\ OnlyPositionAnd({})) =>
        /\ pc = Done
        /\ self.confidence_array = Ndarray(ButLast(args.position_array.shape), "nan")
        /\ self.individual_names =
               GeneratedNames("individual_", args.position_array.shape[2])
        /\ self.keypoint_names =
               GeneratedNames("keypoint_", args.position_array.shape[3])

C1_Witness ==
    /\ pc = Done
    /\ OnlyPositionAnd({})
    /\ args.position_array.shape = <<1, 2, 2, 3>>
    /\ self.individual_names = List(<<Str("individual_0"), Str("individual_1")>>)

(* C2: in every ValidPosesDataset built, individual_names has as many items    *)
(* as position_array has individuals (shape[1]) and keypoint_names as many as  *)
(* it has keypoints (shape[2]), whatever source_software is.                   *)
C2_NameLengthsMatchAxes ==
    (cls = Poses /\ pc = Done) =>
        /\ Len(self.individual_names.items) = self.position_array.shape[2]
        /\ Len(self.keypoint_names.items) = self.position_array.shape[3]

(* C3: every ValidPosesDataset built with source_software "LightningPose" has  *)
(* exactly one individual: shape[1] = 1 and one individual name.               *)
C3_LightningPoseSingleIndividual ==
    (cls = Poses /\ pc = Done /\ self.source_software = Str("LightningPose")) =>
        /\ self.position_array.shape[2] = 1
        /\ Len(self.individual_names.items) = 1

(* C4: no ValidBboxesDataset is built with individual_names absent: the names  *)
(* are present and as many as position_array has boxes (shape[1]).             *)
C4_BoxNamesPresent ==
    (cls = Bboxes /\ pc = Done) =>
        /\ self.individual_names # None
        /\ Len(self.individual_names.items) = self.position_array.shape[2]

(* C5: in every ValidBboxesDataset built, shape_array and position_array have  *)
(* the same shape.                                                             *)
C5_SameFramesAndBoxes ==
    (cls = Bboxes /\ pc = Done) =>
        self.shape_array.shape = self.position_array.shape

C7_InvalidArraysRejected ==
    /\ (cls = Poses /\ args.position_array \notin {Unread, Omitted}
            /\ ~IsPosePosition(args.position_array)) => pc = Raised
    /\ \A a \in {"position_array", "shape_array"} :
          (cls = Bboxes /\ args[a] \notin {Unread, Omitted} /\ ~IsBboxArray(args[a]))
              => pc = Raised
    /\ (cls = Poses /\ pc = Done) => IsPosePosition(self.position_array)
    /\ (cls = Bboxes /\ pc = Done) =>
          IsBboxArray(self.position_array) /\ IsBboxArray(self.shape_array)

C7_Witness ==
    /\ cls = Poses
    /\ pc = Raised
    /\ args.position_array = Ndarray(<<1, 2, 2>>, "data")
    /\ raised.step = <<"validate", "position_array">>

(* C8: building the class again from the attributes of a dataset already       *)
(* built never fails, fills no default, and yields the same attributes.        *)
C8_Idempotent ==
    pass = 2 =>
        /\ pc # Raised
        /\ ~Terminal => ENABLED Next
        /\ pc = Done =>
              /\ self = first
              /\ \A w \in DefaultWarnings : ~Logged(w)

C8_Witness ==
    /\ pass = 2
    /\ pc = Done
    /\ cls = Poses
    /\ first.confidence_array.fill = "nan"
    /\ first.individual_names = List(<<Str("7"), Str("7")>>)
    /\ first.fps = Float(25)

(* C9 as stated: with a valid position array and the other optional            *)
(* arguments absent, individual_names = "x" always builds the dataset, with    *)
(* individual_names = ["x"] and a warning logged.                              *)
C9_BareStringAlwaysBuilds ==
    (Terminal /\ OnlyPositionAnd({"individual_names"})
         /\ args.individual_names = Str("x")) =>
        /\ pc = Done
        /\ self.individual_names = List(<<Str("x")>>)
        /\ Logged("str_to_list")

(* C9 as amended: a bare string is never rejected by the coercion itself: it   *)
(* becomes a one-item list and a warning is logged.  With a valid position     *)
(* array and the other optional arguments absent, the dataset is built, with   *)
(* individual_names = ["x"], exactly when the position array has one           *)
(* individual (shape[1] = 1); otherwise the length check of individual_names   *)
(* ends the construction.                                                      *)
C9_BareStringOneIndividual ==
    /\ (cls = Poses /\ pass = 1 /\ args.individual_names = Str("x")) =>
          /\ Logged("str_to_list")
          /\ raised = NoError \/ raised.step # <<"convert", "individual_names">>
    /\ (Terminal /\ OnlyPositionAnd({"individual_names"})
            /\ args.individual_names = Str("x")) =>
          IF args.position_array.shape[2] = 1
          THEN /\ pc = Done
               /\ self.individual_names = List(<<Str("x")>>)
          ELSE /\ pc = Raised
               /\ raised.step = <<"validate", "individual_names">>

C9_Witness ==
    /\ pc = Done
    /\ OnlyPositionAnd({"individual_names"})
    /\ args.individual_names = Str("x")
    /\ self.individual_names = List(<<Str("x")>>)
    /\ self.keypoint_names = List(<<Str("keypoint_0"), Str("keypoint_1")>>)

\* The stage of the specification a step of __init__ belongs to (0: none)
ClaimedStage(step) ==
    CASE step \in {<<"convert", "individual_names">>, <<"convert", "keypoint_names">>} -> 1
      [] step = <<"convert", "fps">> -> 2
      [] step \in {<<"validate", "position_array">>, <<"validate", "shape_array">>} -> 3
      [] step = <<"validate", "confidence_array">> -> 4
      [] step = <<"validate", "individual_names">> -> 5
      [] step = <<"validate", "keypoint_names">> -> 6
      [] step = PostInit -> 7
      [] OTHER -> 0

IsPrefix(s, t) == Len(s) <= Len(t) /\ \A i \in 1 .. Len(s) : s[i] = t[i]

PosesStageOrder ==
    << <<"convert", "individual_names">>, <<"convert", "keypoint_names">>,
       <<"convert", "fps">>, <<"validate", "position_array">>,
       <<"validate", "confidence_array">>, <<"validate", "individual_names">>,
       <<"validate", "keypoint_names">>, <<"validate", "source_software">>,
       <<"post_init", "">> >>

BboxesStageOrder ==
    << <<"convert", "individual_names">>, <<"convert", "fps">>,
       <<"validate", "position_array">>, <<"validate", "shape_array">>,
       <<"validate", "individual_names">>, <<"validate", "confidence_array">>,
       <<"validate", "source_software">>, <<"post_init", "">> >>

FirstFailureEnds ==
    /\ raised # NoError => pc = Raised
    /\ pc = Raised =>
          /\ ~ENABLED Next
          /\ raised.step # Idle => trace[Len(trace)] = raised.step
          /\ raised.step # PostInit => \A w \in DefaultWarnings : ~Logged(w)

(* C10 as stated: both classes run the same stages in the same order: name     *)
(* coercion, fps normalization, checks of the position array(s), confidence    *)
(* shape check, individual_names length check, keypoint_names length check,    *)
(* defaulting; the first failure ends the construction.                        *)
C10_SameStageOrder ==
    /\ \A i, j \in 1 .. Len(trace) :
          (i < j /\ ClaimedStage(trace[i]) # 0 /\ ClaimedStage(trace[j]) # 0)
              => ClaimedStage(trace[i]) <= ClaimedStage(trace[j])
    /\ FirstFailureEnds

(* C10 as amended: each class runs its stages in a fixed order and the first   *)
(* failure ends the construction: no later stage runs, and no default is       *)
(* filled or announced unless the failure is raised by the defaulting stage.   *)
(* ValidPosesDataset: name coercion, fps, position array, confidence shape,    *)
(* individual_names length, keypoint_names length, source_software type,       *)
(* defaulting.  ValidBboxesDataset: name coercion, fps, position_array then    *)
(* shape_array, individual_names length, and only then confidence shape,       *)
(* source_software type, defaulting.                                           *)
C10_StageOrderPerClass ==
    /\ cls = Poses => IsPrefix(trace, PosesStageOrder)
    /\ cls = Bboxes => IsPrefix(trace, BboxesStageOrder)
    /\ FirstFailureEnds

C10_Witness ==
    /\ cls = Bboxes
    /\ pc = Raised
    /\ raised.step = <<"validate", "individual_names">>
    /\ args.confidence_array = Unread
    /\ Len(trace) = 5

====
